---- MODULE Spec2Model ----
(***************************************************************************)
(* Battlefield System (Foundry VTT): the Status Registry of               *)
(* BattlefieldActor, the Structure "full type", and the list sub-entity   *)
(* editor of the Army / Faction data models and sheets.                   *)
(*                                                                         *)
(* Strings are sequences of one-character strings, so that trim() and     *)
(* template-literal concatenation are computed, not assumed.              *)
(***************************************************************************)
EXTENDS Integers, Sequences, FiniteSets, TLC

\* ------------------------------------------------------------------ bounds
\* Number of embedded documents the host may create on the actor.
MaxId == 2
\* Number of list entries (heroes and legions, or enemies and allies) of an actor.
MaxElems == 2
\* Number of operations that may be in flight at the same time.
MaxTasks == 2

\* ------------------------------------------------------------- JS values
JSString(s) == [t |-> "string", s |-> s, n |-> 0]
JSNumber(n) == [t |-> "number", s |-> <<>>, n |-> n]
JSBoolean(b) == [t |-> "boolean", s |-> <<>>, n |-> IF b THEN 1 ELSE 0]
JSNull == [t |-> "null", s |-> <<>>, n |-> 0]
JSUndefined == [t |-> "undefined", s |-> <<>>, n |-> 0]
JSNaN == [t |-> "nan", s |-> <<>>, n |-> 0]
JSObject == [t |-> "object", s |-> <<>>, n |-> 0]
JSArray == [t |-> "array", s |-> <<>>, n |-> 0]
\* The non-integer number n + 0.5.
JSFraction(n) == [t |-> "fraction", s |-> <<>>, n |-> n]

\* ToBoolean: "", 0, NaN, null, undefined and false are falsy.
Truthy(v) ==
    CASE v.t = "string" -> v.s # <<>>
      [] v.t = "number" -> v.n # 0
      [] v.t = "boolean" -> v.n = 1
      [] v.t = "object" -> TRUE
      [] v.t = "array" -> TRUE
      [] v.t = "fraction" -> TRUE
      [] OTHER -> FALSE

\* The typeof operator (typeof null is "object", typeof NaN is "number").
TypeOf(v) ==
    CASE v.t = "string" -> "string"
      [] v.t = "number" -> "number"
      [] v.t = "nan" -> "number"
      [] v.t = "fraction" -> "number"
      [] v.t = "boolean" -> "boolean"
      [] v.t = "undefined" -> "undefined"
      [] OTHER -> "object"

IsSpace(c) == c = " "

RECURSIVE TrimStart(_)
TrimStart(s) ==
    IF s = <<>> THEN <<>>
    ELSE IF IsSpace(Head(s)) THEN TrimStart(Tail(s)) ELSE s

RECURSIVE TrimEnd(_)
TrimEnd(s) ==
    IF s = <<>> THEN <<>>
    ELSE IF IsSpace(s[Len(s)]) THEN TrimEnd(SubSeq(s, 1, Len(s) - 1)) ELSE s

\* String.prototype.trim
Trim(s) == TrimEnd(TrimStart(s))

\* ------------------------------------------------------------ input sets
\* Strings offered as status names.
NameSamples == { <<>>, <<" ">>, <<"a">>, <<" ", "a">> }

\* Text typed into a status name field.
RenameValues == NameSamples \cup { <<"a", " ">> }

\* Values a caller may pass as addStatus's argument.
NameInputs ==
    { JSString(s) : s \in NameSamples }
        \cup { JSNull, JSUndefined, JSNumber(0), JSNumber(5), JSObject }

\* dataset.statusId is absent (undefined) on an element without the attribute.
NoId == 0
\* The id of a document the actor holds from the start.
OtherId == MaxId + 1
IdInputs == (0 .. MaxId) \cup {OtherId}

ActorUuid == "Actor.uuid"
StatusImg == "icons/svg/hazard.svg"
NullDuration == "null"

\* ------------------------------------------------------------------ state
VARIABLES
    items,          \* the actor's embedded Item collection, insertion order
    nextId,         \* the id the host gives the next created document
    last,           \* the operation that ran last: arguments, outcome, host calls
    structureType,  \* Structure actor: system.structureType
    buildingType,   \* Structure actor: system.buildingType (a string or null)
    sheetData,      \* StructureSheet: what the last getData() produced
    actorType,      \* list editor: "army" or "faction"
    lists,          \* in-memory system.heroes / legendaryLegions / enemies / allies
    lastL,          \* the list operation that ran last
    trail,          \* the adds, then the remove, that made the lists from empty ones
    lastF,          \* the form submission that ran last
    effects,        \* legacy generation: the actor's ActiveEffect collection
    generation,     \* which BattlefieldActor is loaded: "legacy" or "newest"
    tasks           \* the asynchronous operations in flight, one per collaborator

statusVars == <<items, nextId, last>>
structureVars == <<structureType, buildingType, sheetData>>
listVars == <<actorType, lists, lastL, trail>>
formVars == <<lastF>>
legacyVars == <<effects, generation>>
taskVars == <<tasks>>
vars == <<items, nextId, last, structureType, buildingType, sheetData,
          actorType, lists, lastL, trail, lastF, effects, generation, tasks>>

\* A child of another kind than status, present on the actor from the start.
OtherItem(id) ==
    [id |-> id, type |-> "other", name |-> <<"a">>, img |-> "icons/svg/item-bag.svg",
     description |-> <<>>, duration |-> NullDuration, isActive |-> TRUE,
     source |-> "", isStatus |-> FALSE, srcIsActive |-> TRUE]

\* The record kept of an operation: its arguments, the target as it was before,
\* what it returned or threw, the error raised inside it ("" when none), the host
\* calls it issued, the error notifications it showed, whether the operation
\* before it was the same call with both running to completion, and then the
\* number of host calls that earlier call issued.
NoOp ==
    [op |-> "none", arg |-> JSUndefined, id |-> NoId, before |-> <<>>, retKind |-> "none",
     ret |-> <<>>, threw |-> FALSE, err |-> "", calls |-> <<>>, notified |-> 0,
     again |-> FALSE, prevCalls |-> 0]

OpRec(op, arg, id, before, retKind, ret, threw, err, calls, notified) ==
    [op |-> op, arg |-> arg, id |-> id, before |-> before, retKind |-> retKind,
     ret |-> ret, threw |-> threw, err |-> err, calls |-> calls, notified |-> notified,
     again |-> FALSE, prevCalls |-> 0]

\* ----------------------------------------------------- embedded collection
\* Collection.find: the first element among the positions that satisfy the test,
\* or undefined (here a sequence of at most one element).
FindFirst(coll, hits) ==
    IF hits = {} THEN <<>>
    ELSE <<coll[CHOOSE i \in hits : \A j \in hits : i <= j]>>

\* this.items.get(id)
ItemsGet(coll, id) == FindFirst(coll, { i \in 1 .. Len(coll) : coll[i].id = id })

\* getStatusItems: this.items.filter(item => item.type === 'status')
getStatusItems(coll) == SelectSeq(coll, LAMBDA it : it.type = "status")

\* The host's create / delete / update of an embedded document.
HostCreate(coll, id, payload) ==
    Append(coll,
        [id |-> id, type |-> payload.type, name |-> payload.name, img |-> payload.img,
         description |-> payload.description, duration |-> payload.duration,
         isActive |-> payload.isActive, source |-> payload.source,
         isStatus |-> payload.isStatus, srcIsActive |-> payload.isActive])

HostDelete(coll, ids) == SelectSeq(coll, LAMBDA it : it.id \notin ids)

\* A changed field is written to the document's source and the in-memory data is
\* prepared again from the source; an unchanged one is an empty diff.
HostUpdateName(coll, id, name) ==
    [i \in 1 .. Len(coll) |->
        IF coll[i].id = id /\ coll[i].name # name
        THEN [coll[i] EXCEPT !.name = name, !.isActive = coll[i].srcIsActive]
        ELSE coll[i]]

HostUpdateIsActive(coll, id, b) ==
    [i \in 1 .. Len(coll) |->
        IF coll[i].id = id /\ coll[i].srcIsActive # b
        THEN [coll[i] EXCEPT !.srcIsActive = b, !.isActive = b]
        ELSE coll[i]]

HostCall(kind, id, data, ok) == [kind |-> kind, id |-> id, data |-> data, ok |-> ok]

SameCall(a, b) ==
    /\ a.op = b.op
    /\ a.arg = b.arg
    /\ a.id = b.id
    /\ a.err = ""
    /\ b.err = ""

Finish(rec) ==
    last' = [rec EXCEPT !.again = SameCall(last, rec),
                        !.prevCalls = IF SameCall(last, rec) THEN Len(last.calls) ELSE 0]

\* ---------------------------------------------------------------- addStatus
\* Mutant: only the falsy test is made.
AddStatusInvalidOnlyFalsy(v) == ~Truthy(v)

\* if (!statusName || typeof statusName !== 'string' || statusName.trim() === '')
AddStatusInvalid(v) ==
    \/ ~Truthy(v)
    \/ TypeOf(v) # "string"
    \/ Trim(v.s) = <<>>

\* this.items.find(item => item.type === 'status' && item.name === statusName)
FindStatus(coll, name) ==
    FindFirst(coll, { i \in 1 .. Len(coll) :
                        coll[i].type = "status" /\ coll[i].name = name })

\* Mutant: the source is left empty.
StatusPayloadNoSource(name) ==
    [name |-> name, type |-> "status", img |-> StatusImg, description |-> <<>>,
     duration |-> NullDuration, isActive |-> TRUE, source |-> "",
     isStatus |-> TRUE]

\* The document data handed to createEmbeddedDocuments.
StatusPayload(name) ==
    [name |-> name, type |-> "status", img |-> StatusImg, description |-> <<>>,
     duration |-> NullDuration, isActive |-> TRUE, source |-> ActorUuid,
     isStatus |-> TRUE]

\* addStatus run for the call op(arg): the registry method itself, or the deprecated
\* addStatusEffect that hands it a label.
AddStatusFrom(op, arg, v) ==
    LET existing == FindStatus(items, v.s)
        call(ok) == HostCall("create", nextId, StatusPayload(v.s), ok)
        created == HostCreate(items, nextId, StatusPayload(v.s))
    IN  /\ UNCHANGED <<taskVars, structureVars, listVars, formVars, legacyVars>>
        /\ IF AddStatusInvalid(v)
           THEN /\ Finish(OpRec(op, arg, NoId, <<>>, "none", <<>>, TRUE,
                                "Invalid status name provided", <<>>, 0))
                /\ UNCHANGED <<items, nextId>>
           ELSE IF existing # <<>>
           THEN /\ Finish(OpRec(op, arg, NoId, <<>>, "item", existing, FALSE,
                                "", <<>>, 0))
                /\ UNCHANGED <<items, nextId>>
           ELSE /\ nextId <= MaxId
                /\ \/ /\ items' = created
                      /\ nextId' = nextId + 1
                      /\ Finish(OpRec(op, arg, NoId, <<>>, "item",
                                      <<created[Len(created)]>>, FALSE, "",
                                      <<call(TRUE)>>, 0))
                   \/ /\ UNCHANGED <<items, nextId>>
                      /\ Finish(OpRec(op, arg, NoId, <<>>, "none", <<>>, TRUE,
                                      "PersistenceFailure", <<call(FALSE)>>, 0))

AddStatus(v) == AddStatusFrom("addStatus", v, v)

\* ------------------------------------------------------------- removeStatus
\* Mutant: the kind of the child is not looked at.
RemoveStatusMissingAnyKind(found) == found = <<>>

\* if (!statusItem || statusItem.type !== 'status')
RemoveStatusMissing(found) ==
    \/ found = <<>>
    \/ found[1].type # "status"

\* Mutant: every Status child is handed to the delete.
DeleteIdsAllStatuses(id) ==
    { items[i].id : i \in { j \in 1 .. Len(items) : items[j].type = "status" } }

\* deleteEmbeddedDocuments('Item', [statusId])
DeleteIds(id) == {id}

\* removeStatus run for the call op(arg).
RemoveStatusFrom(op, arg, id) ==
    LET found == ItemsGet(items, id)
        call(ok) == HostCall("delete", id, DeleteIds(id), ok)
    IN  /\ UNCHANGED <<taskVars, structureVars, listVars, formVars, legacyVars, nextId>>
        /\ IF RemoveStatusMissing(found)
           THEN /\ Finish(OpRec(op, arg, id, found, "array", <<>>,
                                FALSE, "", <<>>, 0))
                /\ UNCHANGED items
           ELSE \/ /\ items' = HostDelete(items, DeleteIds(id))
                   /\ Finish(OpRec(op, arg, id, found, "array", found,
                                   FALSE, "", <<call(TRUE)>>, 0))
                \/ /\ UNCHANGED items
                   /\ Finish(OpRec(op, arg, id, found, "none", <<>>,
                                   TRUE, "PersistenceFailure", <<call(FALSE)>>, 0))

RemoveStatus(id) == RemoveStatusFrom("removeStatus", JSUndefined, id)

\* ------------------------------------------------------------- toggleActive
\* Mutant: the status is switched on whatever it was.
FlipAlwaysOn(b) == TRUE

\* this.isActive = !this.isActive
Flip(b) == ~b

\* {"system.isActive": this.isActive}
TogglePatch(b) == ("system.isActive" :> b)

SetIsActive(coll, id, b) ==
    [i \in 1 .. Len(coll) |->
        IF coll[i].id = id THEN [coll[i] EXCEPT !.isActive = b] ELSE coll[i]]

ToggleActive(id) ==
    LET found == ItemsGet(items, id)
        flipped == Flip(found[1].isActive)
        inMemory == SetIsActive(items, id, flipped)
        call(ok) == HostCall("update", id, TogglePatch(flipped), ok)
    IN  /\ found # <<>>
        /\ found[1].type = "status"
        /\ UNCHANGED <<taskVars, structureVars, listVars, formVars, legacyVars, nextId>>
        /\ \/ /\ items' = HostUpdateIsActive(inMemory, id, flipped)
              /\ Finish(OpRec("toggleActive", JSUndefined, id, found, "item",
                              ItemsGet(items', id), FALSE, "", <<call(TRUE)>>, 0))
           \/ /\ items' = inMemory
              /\ Finish(OpRec("toggleActive", JSUndefined, id, found, "none", <<>>,
                              TRUE, "PersistenceFailure", <<call(FALSE)>>, 0))

\* ------------------------------------------------------ _onStatusNameChange
\* { name: newName }
RenamePatch(newName) == ("name" :> newName)

\* Mutant: the new name is not tested.
RenameTargetAnyName(coll, statusId, newName) ==
    IF statusId # NoId THEN ItemsGet(coll, statusId) ELSE <<>>

\* if (statusId && newName) { statusItem = this.actor.items.get(statusId); if (statusItem)
RenameTarget(coll, statusId, newName) ==
    IF statusId # NoId /\ newName # <<>> THEN ItemsGet(coll, statusId) ELSE <<>>

OnStatusNameChange(statusId, value) ==
    LET newName == Trim(value)
        target == RenameTarget(items, statusId, newName)
        call(ok) == HostCall("update", statusId, RenamePatch(newName), ok)
    IN  /\ UNCHANGED <<taskVars, structureVars, listVars, formVars, legacyVars, nextId>>
        /\ IF target = <<>>
           THEN /\ UNCHANGED items
                /\ Finish(OpRec("_onStatusNameChange", JSString(value), statusId, target,
                                "none", <<>>, FALSE, "", <<>>, 0))
           ELSE \/ /\ items' = HostUpdateName(items, statusId, newName)
                   /\ Finish(OpRec("_onStatusNameChange", JSString(value), statusId,
                                   target, "none", <<>>, FALSE, "", <<call(TRUE)>>, 0))
                \/ /\ UNCHANGED items
                   /\ Finish(OpRec("_onStatusNameChange", JSString(value), statusId,
                                   target, "none", <<>>, FALSE, "PersistenceFailure",
                                   <<call(FALSE)>>, 1))

\* ------------------------------------------- addStatusEffect / removeStatusEffect
\* CONFIG.statusEffects: the configured vocabulary; an entry may carry a duration.
StatusEffectsConfig ==
    << [id |-> <<"a">>, label |-> <<"a">>, icon |-> "icons/a.svg",
        duration |-> [rounds |-> JSUndefined, seconds |-> JSUndefined,
                      turns |-> JSUndefined]],
       [id |-> <<"b">>, label |-> <<"B">>, icon |-> "icons/b.svg",
        duration |-> [rounds |-> JSNumber(3), seconds |-> JSNumber(0),
                      turns |-> JSUndefined]] >>

\* Values a caller may pass as statusId.
StatusIdInputs ==
    { JSString(<<"a">>), JSString(<<"b">>), JSString(<<"B">>), JSString(<<"z">>),
      JSUndefined }

\* The session clock: game.combat?.round and game.time.worldTime.
Clocks ==
    { [round |-> JSUndefined, worldTime |-> 0], [round |-> JSNumber(0), worldTime |-> 0],
      [round |-> JSNumber(2), worldTime |-> 60] }

\* CONFIG.statusEffects.find(e => e.id === statusId)
FindConfig(statusId) ==
    FindFirst(StatusEffectsConfig,
              { i \in 1 .. Len(StatusEffectsConfig) :
                    statusId.t = "string" /\ StatusEffectsConfig[i].id = statusId.s })

\* statuses.size === 1 && statuses.has(id)
Exactly(effect, id) == Cardinality(effect.statuses) = 1 /\ id \in effect.statuses

\* Mutant: only the first effect of the collection is looked at.
FindEffectFirstOnly(coll, id) ==
    FindFirst(coll, { i \in 1 .. Len(coll) : i = 1 /\ Exactly(coll[i], id) })

\* this.effects.find(effect => statuses.size === 1 && statuses.has(status.id))
FindEffect(coll, id) ==
    FindFirst(coll, { i \in 1 .. Len(coll) : Exactly(coll[i], id) })

\* this.effects.filter(effect => statuses.size === 1 && statuses.has(statusId))
FilterEffects(coll, statusId) ==
    SelectSeq(coll, LAMBDA e : statusId.t = "string" /\ Exactly(e, statusId.s))

\* value || null
OrNull(v) == IF Truthy(v) THEN v ELSE JSNull

\* The data handed to ActiveEffect.create.
EffectPayload(status, clock) ==
    [label |-> status.label, icon |-> status.icon, statuses |-> {status.id},
     origin |-> ActorUuid,
     duration |-> [rounds |-> OrNull(status.duration.rounds),
                   seconds |-> OrNull(status.duration.seconds),
                   turns |-> OrNull(status.duration.turns),
                   startRound |-> OrNull(clock.round),
                   startTime |-> clock.worldTime]]

EffectCreate(coll, id, payload) ==
    Append(coll,
        [id |-> id, label |-> payload.label, icon |-> payload.icon,
         statuses |-> payload.statuses, origin |-> payload.origin,
         duration |-> payload.duration])

\* An effect that carries two markers, created by other means than this API.
OtherEffect(id) ==
    [id |-> id, label |-> <<"a", "b">>, icon |-> "icons/ab.svg",
     statuses |-> {<<"a">>, <<"b">>}, origin |-> "",
     duration |-> [rounds |-> JSNull, seconds |-> JSNull, turns |-> JSNull,
                   startRound |-> JSNull, startTime |-> 0]]

\* BattlefieldActor.addStatusEffect of the ActiveEffect generation.
addStatusEffect(statusId, clock) ==
    LET status == FindConfig(statusId)
        existing == FindEffect(effects, status[1].id)
        payload == EffectPayload(status[1], clock)
        call(ok) == HostCall("create", nextId, payload, ok)
        created == EffectCreate(effects, nextId, payload)
    IN  /\ UNCHANGED <<taskVars, structureVars, listVars, formVars, items, generation>>
        /\ IF status = <<>>
           THEN /\ Finish(OpRec("addStatusEffect", statusId, NoId, effects, "none", <<>>,
                                TRUE, "Invalid status ID provided", <<>>, 0))
                /\ UNCHANGED <<effects, nextId>>
           ELSE IF existing # <<>>
           THEN /\ Finish(OpRec("addStatusEffect", statusId, NoId, effects, "effect",
                                existing, FALSE, "", <<>>, 0))
                /\ UNCHANGED <<effects, nextId>>
           ELSE /\ nextId <= MaxId
                /\ \/ /\ effects' = created
                      /\ nextId' = nextId + 1
                      /\ Finish(OpRec("addStatusEffect", statusId, NoId, effects, "effect",
                                      <<created[Len(created)]>>, FALSE, "",
                                      <<call(TRUE)>>, 0))
                   \/ /\ UNCHANGED <<effects, nextId>>
                      /\ Finish(OpRec("addStatusEffect", statusId, NoId, effects, "none",
                                      <<>>, TRUE, "PersistenceFailure", <<call(FALSE)>>, 0))

\* effects.map(e => e.id)
EffectIds(found) == { found[i].id : i \in 1 .. Len(found) }

\* BattlefieldActor.removeStatusEffect of the ActiveEffect generation. The ids go to
\* ActiveEffect.deleteDocuments with no parent option (the create names the actor
\* as parent): whether the host finds the actor's embedded effects under these ids
\* is not decided by this code, so the call may delete them, resolve with nothing
\* deleted, or reject. The method returns the effects it found whenever the call
\* resolves.
removeStatusEffect(statusId) ==
    LET found == FilterEffects(effects, statusId)
        call(ok) == HostCall("delete", NoId, EffectIds(found), ok)
    IN  /\ UNCHANGED <<taskVars, structureVars, listVars, formVars, items, generation, nextId>>
        /\ IF Len(found) = 0
           THEN /\ Finish(OpRec("removeStatusEffect", statusId, NoId, effects, "array",
                                <<>>, FALSE, "", <<>>, 0))
                /\ UNCHANGED effects
           ELSE \/ /\ effects' = HostDelete(effects, EffectIds(found))
                   /\ Finish(OpRec("removeStatusEffect", statusId, NoId, effects, "array",
                                   found, FALSE, "", <<call(TRUE)>>, 0))
                \/ /\ UNCHANGED effects
                   /\ Finish(OpRec("removeStatusEffect", statusId, NoId, effects, "array",
                                   found, FALSE, "", <<call(TRUE)>>, 0))
                \/ /\ UNCHANGED effects
                   /\ Finish(OpRec("removeStatusEffect", statusId, NoId, effects, "none",
                                   <<>>, TRUE, "PersistenceFailure", <<call(FALSE)>>, 0))

\* The deprecated addStatusEffect of the Item generation: an id of the vocabulary
\* is handed on to addStatus as its label, any other id returns null.
addStatusEffectShim(statusId) ==
    LET status == FindConfig(statusId)
    IN  IF status # <<>>
        THEN AddStatusFrom("addStatusEffect", statusId, JSString(status[1].label))
        ELSE /\ Finish(OpRec("addStatusEffect", statusId, NoId, <<>>, "null", <<>>,
                             FALSE, "", <<>>, 0))
             /\ UNCHANGED <<taskVars, structureVars, listVars, formVars, legacyVars, items, nextId>>

\* this.items.find(item => item.type === 'status' && item.name === statusId)
FindStatusNamedId(coll, statusId) ==
    FindFirst(coll, { i \in 1 .. Len(coll) :
                        /\ coll[i].type = "status"
                        /\ statusId.t = "string"
                        /\ coll[i].name = statusId.s })

\* The deprecated removeStatusEffect of the Item generation.
removeStatusEffectShim(statusId) ==
    LET status == FindStatusNamedId(items, statusId)
    IN  IF status # <<>>
        THEN RemoveStatusFrom("removeStatusEffect", statusId, status[1].id)
        ELSE /\ Finish(OpRec("removeStatusEffect", statusId, NoId, <<>>, "array", <<>>,
                             FALSE, "", <<>>, 0))
             /\ UNCHANGED <<taskVars, structureVars, listVars, formVars, legacyVars, items, nextId>>

\* ------------------------------------------------------------ Structure
\* `${this.structureType} - ${this.buildingType}`
FullTypeOf(a, b) == a \o <<" ", "-", " ">> \o b

\* Mutant: the building type is joined whenever it is a string.
getFullTypeAnyString(sType, bType) ==
    IF bType.t = "string" THEN FullTypeOf(sType, bType.s) ELSE sType

\* StructureDataModel.getFullType
getFullType(sType, bType) ==
    IF Truthy(bType) THEN FullTypeOf(sType, bType.s) ELSE sType

\* StructureSheet.getData: statusEffects and fullType of the display model.
StatusEffectsOf(coll) ==
    [i \in 1 .. Len(getStatusItems(coll)) |->
        [id |-> getStatusItems(coll)[i].id, label |-> getStatusItems(coll)[i].name,
         icon |-> getStatusItems(coll)[i].img, isActive |-> TRUE]]

\* The display model, kept with the types it was made from and the display model
\* of the render before it.
GetData ==
    /\ sheetData' = <<[structureType |-> structureType, buildingType |-> buildingType,
                       statusEffects |-> StatusEffectsOf(items),
                       fullType |-> getFullType(structureType, buildingType),
                       prev |-> IF sheetData = <<>> THEN <<>>
                                ELSE <<[sheetData[1] EXCEPT !.prev = <<>>]>>]>>
    /\ UNCHANGED <<taskVars, statusVars, listVars, formVars, legacyVars, structureType, buildingType>>

TypeSamples == { <<>>, <<"F">>, <<"K">>, <<" ">> }

\* The record kept of a form submission: the flat form data handed in, the lists
\* as they were, the host calls issued and the error notifications shown.
NoForm == [op |-> "none", form |-> <<>>, before |-> <<>>, calls |-> <<>>, notified |-> 0]

FormRec(op, form, before, calls, notified) ==
    [op |-> op, form |-> form, before |-> before, calls |-> calls, notified |-> notified]

StructureKeys == {"system.structureType", "system.buildingType"}

\* Form data of the Structure sheet: the two type fields, each present or not.
StructureForms == UNION { [S -> TypeSamples] : S \in SUBSET StructureKeys }

\* StructureSheet._updateObject: this.actor.update(formData), failures notified.
UpdateStructure(form) ==
    LET call(ok) == HostCall("update", NoId, form, ok)
    IN  /\ \/ /\ structureType' = IF "system.structureType" \in DOMAIN form
                                   THEN form["system.structureType"] ELSE structureType
              /\ buildingType' = IF "system.buildingType" \in DOMAIN form
                                  THEN JSString(form["system.buildingType"])
                                  ELSE buildingType
              /\ lastF' = FormRec("StructureSheet._updateObject", form, <<>>,
                                  <<call(TRUE)>>, 0)
           \/ /\ UNCHANGED <<structureType, buildingType>>
              /\ lastF' = FormRec("StructureSheet._updateObject", form, <<>>,
                                  <<call(FALSE)>>, 1)
        /\ UNCHANGED <<taskVars, statusVars, listVars, legacyVars, sheetData>>

\* ----------------------------------------------------------- list editor
\* Argument values of the list methods: a JS value and, for an object, its fields.
Arg(v, o) == [v |-> v, o |-> o]
EmptyObj == <<>>
ObjArg(o) == Arg(JSObject, o)

ArmyFields == {"heroes", "legendaryLegions"}
FactionFields == {"enemies", "allies"}

\* Per-field defaults of the normalized record of each list (the legion, enemy and
\* ally default names, Chinese text in the source, are written in English).
DefaultsOf(field) ==
    CASE field = "heroes" -> [name |-> "New Hero", equipment |-> "", traits |-> ""]
      [] field = "legendaryLegions" ->
            [name |-> "New Legendary Legion", banner |-> "", rules |-> ""]
      [] field = "enemies" -> [name |-> "New Enemy", deeds |-> ""]
      [] field = "allies" -> [name |-> "New Ally", deeds |-> ""]

\* Mutant: a missing field is left empty.
OrDefaultEmpty(o, k, d) == IF k \in DOMAIN o /\ o[k] # "" THEN o[k] ELSE ""

\* data.k || default: an absent or empty field takes the default.
OrDefault(o, k, d) == IF k \in DOMAIN o /\ o[k] # "" THEN o[k] ELSE d

\* const newHero = { name: heroData.name || "New Hero", ... }
Normalize(field, o) ==
    [k \in DOMAIN DefaultsOf(field) |-> OrDefault(o, k, DefaultsOf(field)[k])]

\* if (!heroData || typeof heroData !== 'object')
DataInvalid(arg) == ~Truthy(arg.v) \/ TypeOf(arg.v) # "object"

\* Mutant: any value of type number passes.
IsIntegerAnyNumber(index) == TypeOf(index) = "number"

\* Number.isInteger(index)
IsInteger(index) == index.t = "number"

\* Mutant: the upper bound is off by one.
InRangeInclusive(n, len) == n >= 0 /\ n <= len

\* index >= 0 && index < this.heroes.length
InRange(n, len) == n >= 0 /\ n < len

\* Mutant: the record is replaced by the partial.
MergeReplace(old, new) == new

\* { ...this.heroes[index], ...heroData }
Merge(old, new) ==
    [k \in DOMAIN old \cup DOMAIN new |-> IF k \in DOMAIN new THEN new[k] ELSE old[k]]

ElemAt(seq, n) == IF n + 1 \in 1 .. Len(seq) THEN seq[n + 1] ELSE <<>>

\* this.heroes[index] = ...
SetAt(seq, n, x) ==
    IF n + 1 \in 1 .. Len(seq) THEN [seq EXCEPT ![n + 1] = x] ELSE Append(seq, x)

\* Mutant: the last element is dropped, whatever the index.
SpliceLast(seq, n) == SubSeq(seq, 1, Len(seq) - 1)

\* Mutant: splice(index) without a delete count drops the rest of the list.
SpliceToEnd(seq, n) == SubSeq(seq, 1, n)

\* this.heroes.splice(index, 1)
Splice(seq, n) ==
    SubSeq(seq, 1, n) \o SubSeq(seq, n + 2, Len(seq))

TotalLen ==
    Len(lists.heroes) + Len(lists.legendaryLegions) + Len(lists.enemies) + Len(lists.allies)

NoListOp ==
    [op |-> "none", field |-> "", index |-> JSUndefined, arg |-> Arg(JSUndefined, EmptyObj),
     threw |-> FALSE, err |-> "", calls |-> <<>>, notified |-> 0]

ListRec(op, field, index, arg, threw, err, calls, notified) ==
    [op |-> op, field |-> field, index |-> index, arg |-> arg, threw |-> threw,
     err |-> err, calls |-> calls, notified |-> notified]

OwnsField(field) ==
    \/ actorType = "army" /\ field \in ArmyFields
    \/ actorType = "faction" /\ field \in FactionFields

\* The trail of a list editor whose lists were empty at the start: the records
\* handed to the adds that succeeded, in order, then the one remove that followed
\* them. Any other change of the lists ends the trail.
NoTrail == [clean |-> FALSE, adds |-> <<>>, removed |-> <<>>]
NewTrail == [clean |-> TRUE, adds |-> <<>>, removed |-> <<>>]

TrailAdd(field, o) ==
    IF trail.clean /\ trail.removed = <<>>
    THEN [trail EXCEPT !.adds = Append(@, [field |-> field, o |-> o])]
    ELSE NoTrail

TrailRemove(field, n) ==
    IF trail.clean /\ trail.removed = <<>>
    THEN [trail EXCEPT !.removed = <<[field |-> field, index |-> n]>>]
    ELSE NoTrail

\* Mutant: the method of the second list works on the first list of its actor.
WriteFieldFirst(ls, field, value) ==
    [ls EXCEPT ![IF field \in ArmyFields THEN "heroes" ELSE "enemies"] = value]

\* this.heroes.push(...) / this.heroes[index] = ... / this.heroes.splice(...): the
\* one list of the data model that the method names is changed.
WriteField(ls, field, value) == [ls EXCEPT ![field] = value]

\* addHero / addLegendaryLegion / addEnemy / addAlly: the error is logged and rethrown.
ListAdd(op, field, arg) ==
    /\ OwnsField(field)
    /\ UNCHANGED <<taskVars, statusVars, structureVars, formVars, legacyVars, actorType>>
    /\ IF DataInvalid(arg)
       THEN /\ UNCHANGED lists
            /\ lastL' = ListRec(op, field, JSUndefined, arg, TRUE, "Invalid data provided",
                                <<>>, 0)
       ELSE /\ TotalLen < MaxElems
            /\ lists' = WriteField(lists, field,
                                   Append(lists[field], Normalize(field, arg.o)))
            /\ lastL' = ListRec(op, field, JSUndefined, arg, FALSE, "", <<>>, 0)
    /\ trail' = IF lists' = lists THEN trail ELSE TrailAdd(field, arg.o)

\* updateHero / updateLegendaryLegion / updateEnemy / updateAlly: every error is
\* logged and swallowed.
ListUpdate(op, field, index, arg) ==
    /\ OwnsField(field)
    /\ UNCHANGED <<taskVars, statusVars, structureVars, formVars, legacyVars, actorType>>
    /\ IF ~IsInteger(index)
       THEN /\ UNCHANGED lists
            /\ lastL' = ListRec(op, field, index, arg, FALSE, "Invalid index provided",
                                <<>>, 0)
       ELSE IF InRange(index.n, Len(lists[field]))
       THEN IF DataInvalid(arg)
            THEN /\ UNCHANGED lists
                 /\ lastL' = ListRec(op, field, index, arg, FALSE, "Invalid data provided",
                                     <<>>, 0)
            ELSE /\ lists' = WriteField(lists, field,
                                SetAt(lists[field], index.n,
                                      Merge(ElemAt(lists[field], index.n), arg.o)))
                 /\ lastL' = ListRec(op, field, index, arg, FALSE, "", <<>>, 0)
       ELSE /\ UNCHANGED lists
            /\ lastL' = ListRec(op, field, index, arg, FALSE, "Index out of bounds",
                                <<>>, 0)
    /\ trail' = IF lists' = lists THEN trail ELSE NoTrail

\* removeHero / removeLegendaryLegion / removeEnemy / removeAlly: every error is
\* logged and swallowed.
ListRemove(op, field, index) ==
    /\ OwnsField(field)
    /\ UNCHANGED <<taskVars, statusVars, structureVars, formVars, legacyVars, actorType>>
    /\ IF ~IsInteger(index)
       THEN /\ UNCHANGED lists
            /\ lastL' = ListRec(op, field, index, Arg(JSUndefined, EmptyObj), FALSE,
                                "Invalid index provided", <<>>, 0)
       ELSE IF InRange(index.n, Len(lists[field]))
       THEN /\ lists' = WriteField(lists, field, Splice(lists[field], index.n))
            /\ lastL' = ListRec(op, field, index, Arg(JSUndefined, EmptyObj), FALSE, "",
                                <<>>, 0)
       ELSE /\ UNCHANGED lists
            /\ lastL' = ListRec(op, field, index, Arg(JSUndefined, EmptyObj), FALSE,
                                "Index out of bounds", <<>>, 0)
    /\ trail' = IF lists' = lists THEN trail ELSE TrailRemove(field, index.n)

addHero(arg) == ListAdd("addHero", "heroes", arg)
updateHero(index, arg) == ListUpdate("updateHero", "heroes", index, arg)
removeHero(index) == ListRemove("removeHero", "heroes", index)
addLegendaryLegion(arg) == ListAdd("addLegendaryLegion", "legendaryLegions", arg)
updateLegendaryLegion(index, arg) ==
    ListUpdate("updateLegendaryLegion", "legendaryLegions", index, arg)
removeLegendaryLegion(index) ==
    ListRemove("removeLegendaryLegion", "legendaryLegions", index)
addEnemy(arg) == ListAdd("addEnemy", "enemies", arg)
updateEnemy(index, arg) == ListUpdate("updateEnemy", "enemies", index, arg)
removeEnemy(index) == ListRemove("removeEnemy", "enemies", index)
addAlly(arg) == ListAdd("addAlly", "allies", arg)
updateAlly(index, arg) == ListUpdate("updateAlly", "allies", index, arg)
removeAlly(index) == ListRemove("removeAlly", "allies", index)

\* ------------------------------------------------------ sheet list handlers
DigitOf(c) ==
    CASE c = "0" -> 0 [] c = "1" -> 1 [] c = "2" -> 2 [] c = "3" -> 3 [] c = "4" -> 4
      [] c = "5" -> 5 [] c = "6" -> 6 [] c = "7" -> 7 [] c = "8" -> 8 [] c = "9" -> 9
      [] OTHER -> -1

\* The value of the longest prefix of decimal digits, given the value so far.
RECURSIVE DigitsValue(_, _)
DigitsValue(s, acc) ==
    IF s = <<>> \/ DigitOf(Head(s)) < 0 THEN acc
    ELSE DigitsValue(Tail(s), 10 * acc + DigitOf(Head(s)))

\* parseInt(string): leading white space, an optional sign, then digits; NaN when
\* no digit follows. undefined reads as the text "undefined", which is NaN.
ParseInt(v) ==
    LET t == TrimStart(v.s)
        neg == t # <<>> /\ Head(t) = "-"
        body == IF t # <<>> /\ Head(t) \in {"-", "+"} THEN Tail(t) ELSE t
    IN  IF v.t # "string" \/ body = <<>> \/ DigitOf(Head(body)) < 0 THEN JSNaN
        ELSE JSNumber(IF neg THEN 0 - DigitsValue(body, 0) ELSE DigitsValue(body, 0))

\* Mutant: the test is left out and NaN is read as 0 (parseInt(...) || 0).
IsNaNNever(v) == FALSE

\* isNaN(index)
IsNaN(v) == v.t = "nan"

\* { 'system.heroes': heroes }
ListPatch(field, value) == ("system." \o field :> value)

\* _onAddHero / _onAddEnemy / _onAddAlly: push a default record on the in-memory
\* list, write the whole list back, notify when the write fails.
OnAdd(op, field) ==
    LET pushed == Append(lists[field], DefaultsOf(field))
        call(ok) == HostCall("update", NoId, ListPatch(field, pushed), ok)
    IN  /\ OwnsField(field)
        /\ TotalLen < MaxElems
        /\ UNCHANGED <<taskVars, statusVars, structureVars, formVars, legacyVars, actorType>>
        /\ lists' = [lists EXCEPT ![field] = pushed]
        /\ \/ lastL' = ListRec(op, field, JSUndefined, Arg(JSUndefined, EmptyObj), FALSE,
                                "", <<call(TRUE)>>, 0)
           \/ lastL' = ListRec(op, field, JSUndefined, Arg(JSUndefined, EmptyObj), FALSE,
                                "PersistenceFailure", <<call(FALSE)>>, 1)
        /\ trail' = IF lists' = lists THEN trail ELSE NoTrail

\* _onRemoveHero / _onRemoveEnemy / _onRemoveAlly: parse data-index, splice the
\* in-memory list, write the whole list back; every error is notified.
OnRemove(op, field, dataIndex) ==
    LET index == ParseInt(dataIndex)
        spliced == Splice(lists[field], index.n)
        call(ok) == HostCall("update", NoId, ListPatch(field, spliced), ok)
    IN  /\ OwnsField(field)
        /\ UNCHANGED <<taskVars, statusVars, structureVars, formVars, legacyVars, actorType>>
        /\ IF IsNaN(index)
           THEN /\ UNCHANGED lists
                /\ lastL' = ListRec(op, field, index, Arg(dataIndex, EmptyObj), FALSE,
                                    "Invalid index", <<>>, 1)
           ELSE IF InRange(index.n, Len(lists[field]))
           THEN /\ lists' = [lists EXCEPT ![field] = spliced]
                /\ \/ lastL' = ListRec(op, field, index, Arg(dataIndex, EmptyObj), FALSE,
                                        "", <<call(TRUE)>>, 0)
                   \/ lastL' = ListRec(op, field, index, Arg(dataIndex, EmptyObj), FALSE,
                                        "PersistenceFailure", <<call(FALSE)>>, 1)
           ELSE /\ UNCHANGED lists
                /\ lastL' = ListRec(op, field, index, Arg(dataIndex, EmptyObj), FALSE,
                                    "Index out of range", <<>>, 1)
        /\ trail' = IF lists' = lists THEN trail ELSE NoTrail

OnAddHero == OnAdd("_onAddHero", "heroes")
OnRemoveHero(dataIndex) == OnRemove("_onRemoveHero", "heroes", dataIndex)
OnAddEnemy == OnAdd("_onAddEnemy", "enemies")
OnRemoveEnemy(dataIndex) == OnRemove("_onRemoveEnemy", "enemies", dataIndex)
OnAddAlly == OnAdd("_onAddAlly", "allies")
OnRemoveAlly(dataIndex) == OnRemove("_onRemoveAlly", "allies", dataIndex)

\* ------------------------------------------------------- form reassembly
\* The row-scoped inputs of a sheet: the prefix of their names, the path of the
\* list they edit, and the per-row fields the handler looks for.
ArmyRowSpecs ==
    { [prefix |-> "hero", list |-> "heroes", fields |-> {"name", "equipment", "traits"}] }

FactionRowSpecs ==
    { [prefix |-> "enemy", list |-> "enemies", fields |-> {"name", "deeds"}],
      [prefix |-> "ally", list |-> "allies", fields |-> {"name", "deeds"}] }

\* `hero-name-${i}`
RowKey(prefix, f, i) == prefix \o "-" \o f \o "-" \o ToString(i)

\* `system.heroes.${i}.name`
PathKey(list, i, f) == "system." \o list \o "." \o ToString(i) \o "." \o f

\* for (let i = 0; i < heroes.length; i++) if (formData[`hero-name-${i}`] !== undefined):
\* the rows and fields of the current lists that the form has an input for (form
\* data holds no undefined value).
Projected(form, specs) ==
    { p \in UNION { { [spec |-> r, i |-> i, f |-> f] :
                        i \in 0 .. Len(lists[r.list]) - 1, f \in r.fields } : r \in specs } :
        RowKey(p.spec.prefix, p.f, p.i) \in DOMAIN form }

\* heroUpdates[`system.heroes.${i}.name`] = formData[`hero-name-${i}`]
RowUpdates(form, proj) ==
    [k \in { PathKey(p.spec.list, p.i, p.f) : p \in proj } |->
        LET p == CHOOSE q \in proj : PathKey(q.spec.list, q.i, q.f) = k
        IN  form[RowKey(p.spec.prefix, p.f, p.i)]]

\* Mutant: the flat row inputs are not deleted from the form data.
RemainingKeepsRows(form, proj) == form

\* delete formData[`hero-name-${i}`]
Remaining(form, proj) ==
    [k \in DOMAIN form \ { RowKey(p.spec.prefix, p.f, p.i) : p \in proj } |-> form[k]]

\* Mutant: the row updates are written in a call of their own.
FormCallsSplit(flat, updates, ok) ==
    <<HostCall("update", NoId, flat, ok), HostCall("update", NoId, updates, ok)>>

\* await this.actor.update({...formData, ...heroUpdates})
FormCalls(flat, updates, ok) == <<HostCall("update", NoId, Merge(flat, updates), ok)>>

\* The host's update of the actor: a dotted path is written into the row and field
\* it names; a key that names no field of the actor is dropped.
HostUpdateLists(ls, patch) ==
    [g \in DOMAIN ls |->
        [j \in 1 .. Len(ls[g]) |->
            LET row == ls[g][j]
                hit == { f \in DOMAIN DefaultsOf(g) : PathKey(g, j - 1, f) \in DOMAIN patch }
            IN  [f \in DOMAIN row \cup hit |->
                    IF f \in hit THEN patch[PathKey(g, j - 1, f)] ELSE row[f]]]]

\* ArmySheet._updateObject / FactionSheet._updateObject: project the row inputs of
\* the current rows into dotted paths, send them with the remaining form data in
\* one update, notify when it fails.
SubmitForm(op, specs, form) ==
    LET proj == Projected(form, specs)
        calls(ok) == FormCalls(Remaining(form, proj), RowUpdates(form, proj), ok)
    IN  /\ UNCHANGED <<taskVars, statusVars, structureVars, legacyVars, actorType, lastL>>
        /\ \/ /\ lists' = HostUpdateLists(lists, calls(TRUE)[1].data)
              /\ lastF' = FormRec(op, form, lists, calls(TRUE), 0)
           \/ /\ UNCHANGED lists
              /\ lastF' = FormRec(op, form, lists, calls(FALSE), 1)
        /\ trail' = IF lists' = lists THEN trail ELSE NoTrail

ArmyUpdateObject(form) ==
    /\ actorType = "army"
    /\ SubmitForm("ArmySheet._updateObject", ArmyRowSpecs, form)

FactionUpdateObject(form) ==
    /\ actorType = "faction"
    /\ SubmitForm("FactionSheet._updateObject", FactionRowSpecs, form)

\* Form inputs: row inputs of the rows 0 .. MaxElems (the last one is beyond every
\* list) and one scalar field, each key with a value of its own.
FormValue(k) == "value of " \o k

ArmyFormKeys ==
    { RowKey("hero", "name", i) : i \in 0 .. MaxElems }
        \cup { RowKey("hero", "equipment", 0), "system.faction" }

FactionFormKeys ==
    { RowKey("enemy", "name", i) : i \in 0 .. MaxElems }
        \cup { RowKey("ally", "deeds", 0), "system.reputation" }

FormsOver(keys) == { [k \in S |-> FormValue(k)] : S \in SUBSET keys }

\* Rows as the add handlers make them.
DefaultRows(field, n) == [j \in 1 .. n |-> DefaultsOf(field)]

\* ------------------------------------------------------ operations in flight
\* An asynchronous operation runs to its await, where the host write is requested,
\* and goes on when the host has answered; other operations run in between. Each
\* task is the operation one collaborator's client runs: a list handler works on
\* that client's copy of the list, and lists is what the host has persisted (and
\* what a client that starts a handler has in memory).
NoTask ==
    [pc |-> "idle", op |-> "none", name |-> <<>>, field |-> "", read |-> <<>>,
     patch |-> <<>>, ok |-> TRUE, notified |-> 0]

NoTasks == [t \in 1 .. MaxTasks |-> NoTask]

\* addStatus up to its await: the argument check and the scan for an existing
\* status; the create is requested only when none bears the name.
AddStatusCheck(t, v) ==
    /\ tasks[t].pc = "idle"
    /\ tasks' = [tasks EXCEPT ![t] =
            IF AddStatusInvalid(v)
            THEN [NoTask EXCEPT !.pc = "done", !.op = "addStatus", !.ok = FALSE]
            ELSE IF FindStatus(items, v.s) # <<>>
            THEN [NoTask EXCEPT !.pc = "done", !.op = "addStatus", !.name = v.s]
            ELSE [NoTask EXCEPT !.pc = "await", !.op = "addStatus", !.name = v.s]]
    /\ UNCHANGED <<statusVars, structureVars, listVars, formVars, legacyVars>>

\* The host answers the createEmbeddedDocuments of a task: the status is created
\* whatever the children are by then, or the create is rejected.
AddStatusCreate(t) ==
    /\ tasks[t].pc = "await"
    /\ tasks[t].op = "addStatus"
    /\ nextId <= MaxId
    /\ \/ /\ items' = HostCreate(items, nextId, StatusPayload(tasks[t].name))
          /\ nextId' = nextId + 1
          /\ tasks' = [tasks EXCEPT ![t].pc = "done"]
       \/ /\ UNCHANGED <<items, nextId>>
          /\ tasks' = [tasks EXCEPT ![t].pc = "done", ![t].ok = FALSE]
    /\ UNCHANGED <<last, structureVars, listVars, formVars, legacyVars>>

\* Mutant: the record is pushed twice.
PushedTwice(list, field) == Append(Append(list, DefaultsOf(field)), DefaultsOf(field))

\* heroes.push({...}) on the list the handler read
Pushed(list, field) == Append(list, DefaultsOf(field))

\* _onAddHero / _onAddEnemy / _onAddAlly up to the await: the list is read, the
\* default record pushed, and the update of the whole list requested.
OnAddBegin(t, op, field) ==
    /\ tasks[t].pc = "idle"
    /\ OwnsField(field)
    /\ Len(lists[field]) < MaxElems
    /\ tasks' = [tasks EXCEPT ![t] =
            [NoTask EXCEPT !.pc = "await", !.op = op, !.field = field,
                           !.read = lists[field], !.patch = Pushed(lists[field], field)]]
    /\ UNCHANGED <<statusVars, structureVars, listVars, formVars, legacyVars>>

\* _onRemoveHero / _onRemoveEnemy / _onRemoveAlly up to the await: a bad index is
\* notified, a good one spliced out of the list read and the update requested.
OnRemoveBegin(t, op, field, dataIndex) ==
    LET index == ParseInt(dataIndex)
    IN  /\ tasks[t].pc = "idle"
        /\ OwnsField(field)
        /\ tasks' = [tasks EXCEPT ![t] =
                IF IsNaN(index) \/ ~InRange(index.n, Len(lists[field]))
                THEN [NoTask EXCEPT !.pc = "done", !.op = op, !.field = field,
                                    !.read = lists[field], !.ok = FALSE, !.notified = 1]
                ELSE [NoTask EXCEPT !.pc = "await", !.op = op, !.field = field,
                                    !.read = lists[field],
                                    !.patch = Splice(lists[field], index.n)]]
        /\ UNCHANGED <<statusVars, structureVars, listVars, formVars, legacyVars>>

\* The host answers the update of a list handler: the field becomes the list the
\* handler sent, or the update is rejected and the handler notifies.
ListWrite(t) ==
    /\ tasks[t].pc = "await"
    /\ tasks[t].op # "addStatus"
    /\ \/ /\ lists' = [lists EXCEPT ![tasks[t].field] = tasks[t].patch]
          /\ tasks' = [tasks EXCEPT ![t].pc = "done"]
       \/ /\ UNCHANGED lists
          /\ tasks' = [tasks EXCEPT ![t].pc = "done", ![t].ok = FALSE, ![t].notified = 1]
    /\ trail' = NoTrail
    /\ UNCHANGED <<statusVars, structureVars, formVars, legacyVars, actorType, lastL>>

\* ---------------------------------------------------------- list inputs
RecordInputs(field) ==
    CASE field = "heroes" ->
            { ObjArg(EmptyObj), ObjArg([name |-> "Thorin", equipment |-> "Axe"]),
              ObjArg([name |-> "", equipment |-> "Axe"]) }
      [] field = "legendaryLegions" -> { ObjArg(EmptyObj), ObjArg([name |-> "Iron"]) }
      [] field = "enemies" -> { ObjArg(EmptyObj), ObjArg([name |-> "Smaug", deeds |-> "Fire"]) }
      [] field = "allies" -> { ObjArg(EmptyObj), ObjArg([name |-> "Bard"]) }

NonObjects ==
    { Arg(JSNull, EmptyObj), Arg(JSUndefined, EmptyObj), Arg(JSString(<<"a">>), EmptyObj),
      Arg(JSNumber(5), EmptyObj), Arg(JSBoolean(TRUE), EmptyObj) }

AddInputs(field) == RecordInputs(field) \cup NonObjects \cup { Arg(JSArray, EmptyObj) }

PartialInputs(field) ==
    { ObjArg([name |-> "Balin"]), ObjArg(EmptyObj), Arg(JSArray, EmptyObj),
      Arg(JSNull, EmptyObj), Arg(JSUndefined, EmptyObj), Arg(JSString(<<"a">>), EmptyObj),
      Arg(JSNumber(0), EmptyObj) }

IndexInputs ==
    { JSNumber(n) : n \in -1 .. MaxElems }
        \cup { JSFraction(0), JSNaN, JSString(<<"0">>), JSUndefined }

\* Records added in the scenarios that start from empty lists.
ScenarioInputs(field) ==
    CASE field = "heroes" -> { ObjArg([name |-> "Thorin"]), ObjArg([name |-> "Balin"]) }
      [] field = "legendaryLegions" -> { ObjArg([name |-> "Iron"]) }
      [] field = "enemies" -> { ObjArg([name |-> "Smaug", deeds |-> "Fire"]) }
      [] field = "allies" -> { ObjArg(EmptyObj), ObjArg([name |-> "Bard"]) }

ScenarioIndexes == { JSNumber(n) : n \in -1 .. MaxElems }

DataIndexInputs ==
    { JSString(s) : s \in { <<"0">>, <<"1">>, <<"2">>, <<"-", "1">>, <<"x">>, <<>>,
                             <<" ", "1">>, <<"1", "x">> } } \cup { JSUndefined }

\* ------------------------------------------------------------------ claims
StatusIndexes(coll, name) ==
    { i \in 1 .. Len(coll) : coll[i].type = "status" /\ coll[i].name = name }

IndexOfId(coll, id) == { i \in 1 .. Len(coll) : coll[i].id = id }

Without(seq, k) == SubSeq(seq, 1, k - 1) \o SubSeq(seq, k + 1, Len(seq))

HasNonSpace(s) == \E i \in 1 .. Len(s) : s[i] # " "

\* C1: addStatus called twice in sequence with the same valid name leaves the
\* actor with exactly one Status child of that name; the second call creates
\* nothing, changes nothing and returns the child the first call returned.
C1_AddStatusTwice ==
    [][ (last'.op = "addStatus" /\ last'.again) =>
            /\ Cardinality(StatusIndexes(items', last'.arg.s)) = 1
            /\ items' = items
            /\ nextId' = nextId
            /\ last'.calls = <<>>
            /\ last'.retKind = "item"
            /\ last'.ret = last.ret ]_vars

\* C2: no two Status children of the actor have the same name.
C2_UniqueStatusNames ==
    \A i, j \in 1 .. Len(items) :
        (/\ i # j
         /\ items[i].type = "status"
         /\ items[j].type = "status") => items[i].name # items[j].name

\* C3: removeStatus with an id that is absent, or that names a child of another
\* kind, returns an empty array, raises nothing, issues no delete and leaves the
\* children as they were.
C3_RemoveStatusMissing ==
    [][ (/\ last'.op = "removeStatus"
         /\ ~\E i \in IndexOfId(items, last'.id) : items[i].type = "status") =>
            /\ last'.retKind = "array"
            /\ last'.ret = <<>>
            /\ ~last'.threw
            /\ last'.err = ""
            /\ last'.calls = <<>>
            /\ items' = items ]_vars

C3_Witness ==
    /\ last.op = "removeStatus"
    /\ last.id = OtherId
    /\ \E i \in 1 .. Len(items) : items[i].id = OtherId /\ items[i].type # "status"
    /\ \E i \in 1 .. Len(items) : items[i].type = "status"
    /\ last.ret = <<>>

\* C4: removeStatus with the id of an existing Status child, the host's delete
\* succeeding, deletes exactly that child and returns it; every other child is
\* unchanged and getStatusItems is the previous result minus that child, in the
\* same order.
C4_RemoveStatusExisting ==
    [][ (/\ last'.op = "removeStatus"
         /\ last'.err = ""
         /\ \E i \in IndexOfId(items, last'.id) : items[i].type = "status") =>
            \E k \in IndexOfId(items, last'.id) :
                /\ last'.retKind = "array"
                /\ last'.ret = <<items[k]>>
                /\ ~last'.threw
                /\ Len(last'.calls) = 1
                /\ last'.calls[1].kind = "delete"
                /\ last'.calls[1].data = {last'.id}
                /\ items' = Without(items, k)
                /\ \E m \in IndexOfId(getStatusItems(items), last'.id) :
                        getStatusItems(items') = Without(getStatusItems(items), m) ]_vars

C4_Witness ==
    /\ last.op = "removeStatus"
    /\ last.err = ""
    /\ Len(last.ret) = 1
    /\ last.ret[1].id = 1
    /\ Len(getStatusItems(items)) = 1
    /\ getStatusItems(items)[1].id = 2

\* C5: addStatus with a name that is empty or not a string throws the invalid
\* name error to its caller, creates nothing and leaves the children unchanged.
C5_AddStatusInvalidInput ==
    [][ (/\ last'.op = "addStatus"
         /\ (last'.arg.t # "string" \/ last'.arg.s = <<>>)) =>
            /\ last'.threw
            /\ last'.err = "Invalid status name provided"
            /\ last'.ret = <<>>
            /\ last'.calls = <<>>
            /\ items' = items
            /\ nextId' = nextId ]_vars

C5_Witness ==
    /\ last.op = "addStatus"
    /\ last.arg = JSNumber(5)
    /\ last.threw

\* C6: addStatus with a valid name that no Status child bears, the host's create
\* succeeding, appends exactly one Status child with that name, empty description,
\* null duration, isActive true and the actor's uuid as source, and returns it.
C6_AddStatusCreates ==
    [][ (/\ last'.op = "addStatus"
         /\ last'.err = ""
         /\ last'.arg.t = "string"
         /\ HasNonSpace(last'.arg.s)
         /\ StatusIndexes(items, last'.arg.s) = {}) =>
            /\ Len(items') = Len(items) + 1
            /\ SubSeq(items', 1, Len(items)) = items
            /\ LET new == items'[Len(items')]
               IN  /\ new.type = "status"
                   /\ new.name = last'.arg.s
                   /\ new.description = <<>>
                   /\ new.duration = NullDuration
                   /\ new.isActive = TRUE
                   /\ new.source = ActorUuid
                   /\ \A i \in 1 .. Len(items) : items[i].id # new.id
                   /\ last'.retKind = "item"
                   /\ last'.ret = <<new>>
            /\ Len(last'.calls) = 1
            /\ last'.calls[1].kind = "create" ]_vars

C6_Witness ==
    /\ last.op = "addStatus"
    /\ last.err = ""
    /\ Len(last.calls) = 1
    /\ Len(items) = 2
    /\ last.ret = <<items[2]>>
    /\ items[2].name = <<" ", "a">>

\* C7: toggleActive flips the Status's isActive and issues exactly one update
\* whose patch holds only system.isActive with the flipped value; a second
\* toggleActive right after the first restores the original isActive.
C7_ToggleActive ==
    [][ (last'.op = "toggleActive") =>
            \E k \in IndexOfId(items, last'.id) :
                /\ items'[k].isActive = ~items[k].isActive
                /\ Len(last'.calls) = 1
                /\ last'.calls[1].kind = "update"
                /\ last'.calls[1].id = last'.id
                /\ DOMAIN last'.calls[1].data = {"system.isActive"}
                /\ last'.calls[1].data["system.isActive"] = items'[k].isActive
                /\ ((last.op = "toggleActive" /\ last.id = last'.id) =>
                        items'[k].isActive = last.before[1].isActive) ]_vars

C7_Witness ==
    /\ last.op = "toggleActive"
    /\ last.again
    /\ last.prevCalls = 1
    /\ \E k \in IndexOfId(items, last.id) :
            /\ items[k].isActive = TRUE
            /\ items[k].srcIsActive = TRUE

\* C8: getFullType is structureType, " - ", buildingType when buildingType is not
\* empty and exactly structureType when it is empty; when buildingType goes from
\* empty to non-empty between two renders, the full type goes from A to "A - B".
C8_FullType ==
    sheetData # <<>> =>
        LET d == sheetData[1]
            A == d.structureType
            B == d.buildingType
            full == d.fullType
            joined ==
                /\ Len(full) = Len(A) + 3 + Len(B.s)
                /\ SubSeq(full, 1, Len(A)) = A
                /\ SubSeq(full, Len(A) + 1, Len(A) + 3) = <<" ", "-", " ">>
                /\ SubSeq(full, Len(A) + 4, Len(full)) = B.s
        IN  /\ (B.t = "string" /\ B.s # <<>>) => joined
            /\ (B.t = "string" /\ B.s = <<>>) => full = A
            /\ (/\ d.prev # <<>>
                /\ d.prev[1].structureType = A
                /\ d.prev[1].buildingType = JSString(<<>>)
                /\ B.t = "string"
                /\ B.s # <<>>) =>
                    /\ d.prev[1].fullType = A
                    /\ joined
                    /\ full # d.prev[1].fullType

C8_Witness ==
    /\ sheetData # <<>>
    /\ sheetData[1].prev # <<>>
    /\ sheetData[1].prev[1].buildingType = JSString(<<>>)
    /\ sheetData[1].prev[1].fullType = <<"F">>
    /\ sheetData[1].buildingType = JSString(<<"K">>)
    /\ sheetData[1].fullType = <<"F", " ", "-", " ", "K">>

RemoveOps ==
    {"removeHero", "removeLegendaryLegion", "removeEnemy", "removeAlly",
     "_onRemoveHero", "_onRemoveEnemy", "_onRemoveAlly"}

UpdateOps == {"updateHero", "updateLegendaryLegion", "updateEnemy", "updateAlly"}

\* C9: remove with 0 <= index < length shortens the list by exactly one, keeps
\* the elements before index in place and moves each element after index down by
\* one position, its content unchanged.
C9_RemoveShifts ==
    [][ (/\ lastL'.op \in RemoveOps
         /\ lastL'.index.t = "number"
         /\ lastL'.index.n >= 0
         /\ lastL'.index.n < Len(lists[lastL'.field])) =>
            LET old == lists[lastL'.field]
                new == lists'[lastL'.field]
                n == lastL'.index.n
            IN  /\ Len(new) = Len(old) - 1
                /\ \A j \in 1 .. n : new[j] = old[j]
                /\ \A j \in n + 2 .. Len(old) : new[j - 1] = old[j] ]_vars

C9_Witness ==
    /\ lastL.op = "removeHero"
    /\ lastL.index = JSNumber(0)
    /\ lastL.err = ""
    /\ Len(lists.heroes) = 1
    /\ lists.heroes[1].name = "Thorin"

\* C10: update with an index that is negative, not below the length or not an
\* integer, or with a partial that is not an object, leaves the list as it was
\* and throws nothing to its caller.
C10_UpdateRejected ==
    [][ (/\ lastL'.op \in UpdateOps
         /\ \/ lastL'.index.t # "number"
            \/ lastL'.index.n < 0
            \/ lastL'.index.n >= Len(lists[lastL'.field])
            \/ lastL'.arg.v.t \notin {"object", "array"}) =>
            /\ lists' = lists
            /\ ~lastL'.threw ]_vars

C10_Witness ==
    /\ lastL.op = "updateAlly"
    /\ lastL.index = JSNumber(0)
    /\ lastL.arg.v = JSNull
    /\ Len(lists.allies) = 2
    /\ lastL.err = "Invalid data provided"

AddOps == {"addHero", "addLegendaryLegion", "addEnemy", "addAlly"}

ModelRemoveOps == {"removeHero", "removeLegendaryLegion", "removeEnemy", "removeAlly"}

OtherFields(field) == (ArmyFields \cup FactionFields) \ {field}

\* C11: update with a valid index and an object partial puts at that index the
\* shallow merge of the partial over the old record (the partial's fields take the
\* partial's values, every other field keeps its value) and leaves the length of
\* the list and every other element unchanged.
C11_UpdateMerges ==
    [][ (/\ lastL'.op \in UpdateOps
         /\ lastL'.index.t = "number"
         /\ lastL'.index.n >= 0
         /\ lastL'.index.n < Len(lists[lastL'.field])
         /\ lastL'.arg.v.t = "object") =>
            LET old == lists[lastL'.field]
                new == lists'[lastL'.field]
                k == lastL'.index.n + 1
                partial == lastL'.arg.o
            IN  /\ Len(new) = Len(old)
                /\ \A j \in 1 .. Len(old) : j # k => new[j] = old[j]
                /\ DOMAIN new[k] = DOMAIN old[k] \cup DOMAIN partial
                /\ \A f \in DOMAIN partial : new[k][f] = partial[f]
                /\ \A f \in DOMAIN old[k] \ DOMAIN partial : new[k][f] = old[k][f]
                /\ \A g \in OtherFields(lastL'.field) : lists'[g] = lists[g] ]_vars

C11_Witness ==
    /\ lastL.op = "updateHero"
    /\ lastL.index = JSNumber(1)
    /\ lastL.arg = ObjArg([name |-> "Balin"])
    /\ lastL.err = ""
    /\ Len(lists.heroes) = 2
    /\ lists.heroes[2] = [name |-> "Balin", equipment |-> "Axe", traits |-> ""]
    /\ lists.heroes[1].name = "New Hero"

\* C12: add with a record that is not a structured object (null, undefined, a
\* string, a number, a boolean or an array) throws to its caller and leaves the
\* list unchanged.
C12_AddRejectsNonObjects ==
    [][ (/\ lastL'.op \in AddOps
         /\ lastL'.arg.v.t # "object") =>
            /\ lastL'.threw
            /\ lastL'.err = "Invalid data provided"
            /\ lists' = lists ]_vars

\* C13 as claimed: add with a structured record appends one record whose every
\* sub-field is the input's value when the input has that sub-field and the
\* per-field default when it has not.
C13_AddAppendsSupplied ==
    [][ (/\ lastL'.op \in AddOps
         /\ lastL'.arg.v.t = "object") =>
            LET old == lists[lastL'.field]
                new == lists'[lastL'.field]
                o == lastL'.arg.o
                d == DefaultsOf(lastL'.field)
            IN  /\ Len(new) = Len(old) + 1
                /\ SubSeq(new, 1, Len(old)) = old
                /\ DOMAIN new[Len(new)] = DOMAIN d
                /\ \A f \in DOMAIN d :
                        new[Len(new)][f] = IF f \in DOMAIN o THEN o[f] ELSE d[f] ]_vars

\* C13 (amended): add with a structured record lengthens the list by exactly one,
\* keeps the previous elements in place, and appends a record whose every
\* sub-field is the input's value when the input has a non-empty value for it and
\* the per-field default when the input omits it or gives it empty; an equal
\* record added twice gives two entries.
C13_AddAppendsNormalized ==
    [][ (/\ lastL'.op \in AddOps
         /\ lastL'.arg.v.t = "object") =>
            LET old == lists[lastL'.field]
                new == lists'[lastL'.field]
                o == lastL'.arg.o
                d == DefaultsOf(lastL'.field)
            IN  /\ ~lastL'.threw
                /\ Len(new) = Len(old) + 1
                /\ SubSeq(new, 1, Len(old)) = old
                /\ DOMAIN new[Len(new)] = DOMAIN d
                /\ \A f \in DOMAIN d :
                        new[Len(new)][f] =
                            IF f \in DOMAIN o /\ o[f] # "" THEN o[f] ELSE d[f]
                /\ \A g \in OtherFields(lastL'.field) : lists'[g] = lists[g] ]_vars

C13_Witness ==
    /\ lastL.op = "addHero"
    /\ lastL.arg = ObjArg([name |-> "", equipment |-> "Axe"])
    /\ Len(lists.heroes) = 2
    /\ lists.heroes[1] = lists.heroes[2]
    /\ lists.heroes[2] = [name |-> "New Hero", equipment |-> "Axe", traits |-> ""]

BadIndex(index, len) == index.t # "number" \/ index.n < 0 \/ index.n >= len

\* C14 as claimed: remove with an index that is not a non-negative integer below
\* the length of the list throws to its caller and leaves the list unchanged.
C14_RemoveSurfacesBadIndex ==
    [][ (/\ lastL'.op \in ModelRemoveOps
         /\ BadIndex(lastL'.index, Len(lists[lastL'.field]))) =>
            /\ lastL'.threw
            /\ lists' = lists ]_vars

\* C14 (amended): remove validates the index as update does and, like update,
\* logs and swallows the failure: with an index that is not a non-negative integer
\* below the length of the list it leaves the list unchanged and throws nothing.
C14_RemoveSwallowsBadIndex ==
    [][ (/\ lastL'.op \in ModelRemoveOps
         /\ BadIndex(lastL'.index, Len(lists[lastL'.field]))) =>
            /\ ~lastL'.threw
            /\ lastL'.err \in {"Invalid index provided", "Index out of bounds"}
            /\ lists' = lists ]_vars

C14_Witness ==
    /\ lastL.op = "removeAlly"
    /\ lastL.index = JSNumber(2)
    /\ lastL.err = "Index out of bounds"
    /\ ~lastL.threw
    /\ Len(lists.allies) = 2

RowFormOps == {"ArmySheet._updateObject", "FactionSheet._updateObject"}

FormOps == RowFormOps \cup {"StructureSheet._updateObject"}

RowSpecsOf(op) == IF op = "ArmySheet._updateObject" THEN ArmyRowSpecs ELSE FactionRowSpecs

\* The row inputs of a form, whatever their index.
RowKeysOf(form, specs) ==
    { k \in DOMAIN form :
        \E r \in specs : \E f \in r.fields, i \in 0 .. MaxElems + 1 :
            k = RowKey(r.prefix, f, i) }

\* C15: on a form submission with lists of length n, for every row i < n and
\* every per-row field f, the patch holds "{base}.{i}.{f}" if and only if the form
\* holds "{prefix}-{f}-{i}", then with the form's value and without that flat row
\* key; every key of the form that is no row key is in the patch with its value.
C15_FormReassembly ==
    [][ (lastF'.op \in RowFormOps) =>
            LET F == lastF'.form
                patch == lastF'.calls[1].data
            IN  /\ \A r \in RowSpecsOf(lastF'.op) :
                        \A f \in r.fields, i \in 0 .. Len(lists[r.list]) - 1 :
                            LET flat == RowKey(r.prefix, f, i)
                                path == PathKey(r.list, i, f)
                            IN  /\ path \in DOMAIN patch <=> flat \in DOMAIN F
                                /\ flat \in DOMAIN F =>
                                        /\ patch[path] = F[flat]
                                        /\ flat \notin DOMAIN patch
                /\ \A k \in DOMAIN F \ RowKeysOf(F, RowSpecsOf(lastF'.op)) :
                        k \in DOMAIN patch /\ patch[k] = F[k] ]_vars

C15_Witness ==
    /\ lastF.op = "ArmySheet._updateObject"
    /\ Len(lastF.before.heroes) = 1
    /\ DOMAIN lastF.form = {"hero-name-0", "hero-equipment-0", "system.faction"}
    /\ DOMAIN lastF.calls[1].data =
            {"system.heroes.0.name", "system.heroes.0.equipment", "system.faction"}
    /\ lastF.calls[1].data["system.heroes.0.name"] = FormValue("hero-name-0")
    /\ lists.heroes[1].name = FormValue("hero-name-0")

\* C16: on a form submission, a row key of the form whose index is at or beyond
\* the length of the list is in the patch as the dotted path
\* "{base}.{i}.{field}" and not under its flat name.
C16_FormRowsBeyondLength ==
    [][ (lastF'.op \in RowFormOps) =>
            LET F == lastF'.form
                patch == lastF'.calls[1].data
            IN  \A r \in RowSpecsOf(lastF'.op) :
                    \A f \in r.fields, i \in Len(lists[r.list]) .. MaxElems + 1 :
                        RowKey(r.prefix, f, i) \in DOMAIN F =>
                            /\ PathKey(r.list, i, f) \in DOMAIN patch
                            /\ RowKey(r.prefix, f, i) \notin DOMAIN patch ]_vars

\* C17: every form submission of the Army, Faction and Structure sheets issues
\* exactly one update of the actor, whose patch holds the remaining flat fields
\* and all the row updates together.
C17_OneUpdatePerSubmit ==
    [][ (lastF'.op \in FormOps) =>
            /\ Len(lastF'.calls) = 1
            /\ lastF'.calls[1].kind = "update"
            /\ LET F == lastF'.form
                   patch == lastF'.calls[1].data
               IN  IF lastF'.op \in RowFormOps
                   THEN LET specs == RowSpecsOf(lastF'.op)
                            rows == { t \in UNION { {r} \X r.fields \X (0 .. MaxElems + 1) :
                                                        r \in specs } :
                                        /\ t[3] < Len(lists[t[1].list])
                                        /\ RowKey(t[1].prefix, t[2], t[3]) \in DOMAIN F }
                            flats == DOMAIN F \ { RowKey(t[1].prefix, t[2], t[3]) : t \in rows }
                        IN  /\ DOMAIN patch =
                                    flats \cup { PathKey(t[1].list, t[3], t[2]) : t \in rows }
                            /\ \A k \in flats : patch[k] = F[k]
                   ELSE patch = F ]_vars

C17_Witness ==
    /\ lastF.op = "FactionSheet._updateObject"
    /\ Len(lastF.calls) = 1
    /\ DOMAIN lastF.calls[1].data =
            {"system.enemies.0.name", "system.allies.0.deeds", "system.reputation"}
    /\ lastF.notified = 0

\* The record each scenario input is to become in its list.
ExpectedRecord(o) ==
    CASE o = [name |-> "Thorin"] -> [name |-> "Thorin", equipment |-> "", traits |-> ""]
      [] o = [name |-> "Balin"] -> [name |-> "Balin", equipment |-> "", traits |-> ""]
      [] o = [name |-> "Iron"] -> [name |-> "Iron", banner |-> "", rules |-> ""]
      [] o = [name |-> "Smaug", deeds |-> "Fire"] -> [name |-> "Smaug", deeds |-> "Fire"]
      [] o = [name |-> "Bard"] -> [name |-> "Bard", deeds |-> ""]
      [] o = EmptyObj -> [name |-> "New Ally", deeds |-> ""]

AddedTo(field) == SelectSeq(trail.adds, LAMBDA a : a.field = field)

ExpectedList(field) ==
    [j \in 1 .. Len(AddedTo(field)) |-> ExpectedRecord(AddedTo(field)[j].o)]

\* C18: starting from empty lists, after a sequence of adds each list is the
\* sequence of the added, normalized records in insertion order, and after a
\* remove(i) with a valid i that follows them the list is that sequence with its
\* i-th record deleted: add(Thorin), add(Balin), remove(0) gives exactly [Balin].
C18_AddsThenRemove ==
    trail.clean =>
        \A g \in ArmyFields \cup FactionFields :
            lists[g] =
                IF trail.removed # <<>> /\ trail.removed[1].field = g
                THEN Without(ExpectedList(g), trail.removed[1].index + 1)
                ELSE ExpectedList(g)

C18_Witness ==
    /\ trail.clean
    /\ trail.adds = <<[field |-> "heroes", o |-> [name |-> "Thorin"]],
                      [field |-> "heroes", o |-> [name |-> "Balin"]]>>
    /\ trail.removed = <<[field |-> "heroes", index |-> 0]>>
    /\ lastL.op = "removeHero"
    /\ lists.heroes = <<[name |-> "Balin", equipment |-> "", traits |-> ""]>>

\* The ids of the configured vocabulary.
ConfigIds == { StatusEffectsConfig[i].id : i \in 1 .. Len(StatusEffectsConfig) }

\* The positions of the effects whose marker set is exactly {id}.
ExactEffects(coll, id) == { i \in 1 .. Len(coll) : coll[i].statuses = {id} }

MarkerIds(coll) == ConfigIds \cup UNION { coll[i].statuses : i \in 1 .. Len(coll) }

\* C19: addStatusEffect, in the ActiveEffect generation and in the deprecated
\* method of the Item generation alike, called with a statusId that is not in the
\* configured vocabulary throws an invalid input error to its caller and creates
\* no Effect and no Status.
C19_AddStatusEffectUnknownId ==
    [][ (/\ last'.op = "addStatusEffect"
         /\ (last'.arg.t # "string" \/ last'.arg.s \notin ConfigIds)) =>
            /\ last'.threw
            /\ last'.err \in {"Invalid status ID provided", "Invalid status name provided"}
            /\ last'.calls = <<>>
            /\ effects' = effects
            /\ items' = items ]_vars

\* C20: in the ActiveEffect generation, whatever addStatusEffect and
\* removeStatusEffect calls have run, no two effects of the actor have the marker
\* set {statusId} for the same statusId; and addStatusEffect with an id that an
\* effect already has as its whole marker set returns that effect, issues no
\* create and leaves the effects as they were.
C20_OneEffectPerStatusId ==
    /\ [](generation = "legacy" =>
            \A id \in MarkerIds(effects) : Cardinality(ExactEffects(effects, id)) <= 1)
    /\ [][ (/\ generation = "legacy"
            /\ last'.op = "addStatusEffect"
            /\ last'.arg.t = "string"
            /\ ExactEffects(effects, last'.arg.s) # {}) =>
               /\ ~last'.threw
               /\ last'.calls = <<>>
               /\ effects' = effects
               /\ \E i \in ExactEffects(effects, last'.arg.s) : last'.ret = <<effects[i]>> ]_vars

C20_Witness ==
    /\ generation = "legacy"
    /\ last.op = "addStatusEffect"
    /\ last.arg = JSString(<<"a">>)
    /\ last.again
    /\ last.prevCalls = 1
    /\ last.calls = <<>>
    /\ Len(effects) = 2
    /\ effects[1].statuses = {<<"a">>, <<"b">>}
    /\ last.ret = <<effects[2]>>

\* C21: legacy removeStatusEffect(statusId), its delete not rejected, deletes every
\* effect whose marker set is exactly {statusId} and returns them in order, keeps
\* every other effect (one that carries statusId with other markers included), and
\* with no match returns an empty array and issues no delete.
C21_RemoveStatusEffectExact ==
    [][ (/\ generation = "legacy"
         /\ last'.op = "removeStatusEffect"
         /\ last'.err = "") =>
            LET hits == IF last'.arg.t = "string"
                        THEN ExactEffects(effects, last'.arg.s) ELSE {}
                keep(i) == i \notin hits
                kept == { i \in 1 .. Len(effects) : keep(i) }
            IN  /\ ~last'.threw
                /\ Len(last'.ret) = Cardinality(hits)
                /\ \A k \in 1 .. Len(last'.ret) : \E i \in hits : last'.ret[k] = effects[i]
                /\ Len(effects') = Cardinality(kept)
                /\ \A i \in kept : \E j \in 1 .. Len(effects') : effects'[j] = effects[i]
                /\ \A i \in hits : \A j \in 1 .. Len(effects') : effects'[j].id # effects[i].id
                /\ hits = {} => last'.calls = <<>> ]_vars

\* The host calls of an operation that failed.
FailedCalls(calls) == { i \in 1 .. Len(calls) : ~calls[i].ok }

\* C22: whenever the host write of an asynchronous operation fails (addStatus,
\* removeStatus, toggleActive, the sheet's rename handler, the sheet's list add and
\* remove handlers, a form submission), the operation catches the failure itself
\* (nothing is thrown to its caller), shows one error notification, and has issued
\* that one write only (no second attempt).
C22_WriteFailuresNotified ==
    [][ /\ FailedCalls(last'.calls) # {} =>
            /\ ~last'.threw
            /\ last'.notified = 1
            /\ Len(last'.calls) = 1
        /\ FailedCalls(lastL'.calls) # {} =>
            /\ ~lastL'.threw
            /\ lastL'.notified = 1
            /\ Len(lastL'.calls) = 1
        /\ FailedCalls(lastF'.calls) # {} =>
            /\ lastF'.notified = 1
            /\ Len(lastF'.calls) = 1 ]_vars

\* C23: when two addStatus calls with the same name were in flight at the same time
\* and both have completed without an error, the actor has exactly one Status child
\* of that name.
C23_ConcurrentAddStatus ==
    \A t1, t2 \in 1 .. MaxTasks :
        (/\ t1 # t2
         /\ tasks[t1].op = "addStatus" /\ tasks[t2].op = "addStatus"
         /\ tasks[t1].pc = "done" /\ tasks[t2].pc = "done"
         /\ tasks[t1].ok /\ tasks[t2].ok
         /\ tasks[t1].name = tasks[t2].name) =>
            Cardinality(StatusIndexes(items, tasks[t1].name)) = 1

AddHandlers == {"_onAddHero", "_onAddEnemy", "_onAddAlly"}

\* C24: the write of a sheet list handler replaces the persisted list by the list
\* that handler read with its own one change (a default record appended, or one
\* row taken out), whatever was written to the field after the read, and touches
\* no other list; so of two handlers that both read before either write is
\* applied, the persisted list reflects only the one whose write is applied last.
C24_WholeListWrite ==
    [][ \A t \in 1 .. MaxTasks :
          (/\ tasks[t].pc = "await"
           /\ tasks[t].op # "addStatus"
           /\ tasks'[t].pc = "done"
           /\ tasks'[t].ok) =>
              LET f == tasks[t].field
                  read == tasks[t].read
              IN  /\ IF tasks[t].op \in AddHandlers
                     THEN lists'[f] = Append(read, DefaultsOf(f))
                     ELSE \E i \in 1 .. Len(read) : lists'[f] = Without(read, i)
                  /\ \A g \in DOMAIN lists \ {f} : lists'[g] = lists[g] ]_vars

\* Two adds on the same field, both written without an error, one record more.
C24_Witness ==
    \E t1, t2 \in 1 .. MaxTasks :
        /\ t1 # t2
        /\ tasks[t1].op = "_onAddHero" /\ tasks[t2].op = "_onAddHero"
        /\ tasks[t1].pc = "done" /\ tasks[t2].pc = "done"
        /\ tasks[t1].ok /\ tasks[t2].ok
        /\ tasks[t1].read = tasks[t2].read
        /\ Len(lists.heroes) = Len(tasks[t1].read) + 1

\* The Status children of a collection, as a set.
StatusSet(coll) == { coll[i] : i \in { j \in 1 .. Len(coll) : coll[j].type = "status" } }

\* C25: in the Item generation, when addStatusEffect(statusId) with an id of the
\* vocabulary has created a status (the actor had none for it) and
\* removeStatusEffect(statusId) with the same id runs next, neither host call
\* failing, the actor's Status children are again those it had before the add.
C25_ShimAddThenRemove ==
    [][ (/\ generation = "newest"
         /\ last.op = "addStatusEffect"
         /\ last.arg.t = "string"
         /\ last.arg.s \in ConfigIds
         /\ last.err = ""
         /\ last.calls # <<>>
         /\ last'.op = "removeStatusEffect"
         /\ last'.arg = last.arg
         /\ last'.err = "") =>
            StatusSet(items') = { it \in StatusSet(items) : it.id # last.ret[1].id } ]_vars

SheetRemoveOps == {"_onRemoveHero", "_onRemoveEnemy", "_onRemoveAlly"}

\* C26: a sheet remove handler whose index (the parsed data-index) is not a
\* number, is negative, or is at or beyond the length of the list issues no host
\* update, leaves the list unchanged and shows exactly one error notification.
C26_SheetRemoveBadIndex ==
    [][ (/\ lastL'.op \in SheetRemoveOps
         /\ BadIndex(lastL'.index, Len(lists[lastL'.field]))) =>
            /\ lastL'.calls = <<>>
            /\ lists' = lists
            /\ lastL'.notified = 1 ]_vars

C26_Witness ==
    /\ lastL.op = "_onRemoveHero"
    /\ lastL.arg.v = JSString(<<"x">>)
    /\ lastL.index = JSNaN
    /\ Len(lists.heroes) = 1
    /\ lastL.calls = <<>>
    /\ lastL.notified = 1

\* C27: when the host write of a sheet add or remove handler fails, the actor's
\* in-memory lists are what they were before the handler ran.
C27_FailedWriteKeepsList ==
    [][ (/\ lastL'.op \in AddHandlers \cup SheetRemoveOps
         /\ FailedCalls(lastL'.calls) # {}) =>
            lists' = lists ]_vars

\* C28: whatever addStatus, removeStatus and rename operations have run, every
\* Status child has a non-empty name; addStatus with an empty or whitespace-only
\* name throws and creates nothing, and the rename handler with a value that is
\* empty once trimmed issues no update and changes no child.
C28_StatusNamesNonEmpty ==
    /\ [](\A i \in 1 .. Len(items) : items[i].type = "status" => items[i].name # <<>>)
    /\ [][ (/\ last'.op = "addStatus"
            /\ last'.arg.t = "string"
            /\ ~HasNonSpace(last'.arg.s)) =>
               /\ last'.threw
               /\ last'.calls = <<>>
               /\ items' = items ]_vars
    /\ [][ (/\ last'.op = "_onStatusNameChange"
            /\ ~HasNonSpace(last'.arg.s)) =>
               /\ last'.calls = <<>>
               /\ items' = items ]_vars

C28_Witness ==
    /\ last.op = "_onStatusNameChange"
    /\ last.arg = JSString(<<" ">>)
    /\ last.id = 1
    /\ last.calls = <<>>
    /\ \E i \in 1 .. Len(items) :
          items[i].id = 1 /\ items[i].type = "status" /\ items[i].name = <<"a">>

\* C29: add, update and remove of the data model change no list but their own
\* (heroes and legendaryLegions are independent, enemies and allies are), and
\* change neither a Status child nor any other field of the actor.
C29_ListsIndependent ==
    [][ lastL'.op \in AddOps \cup UpdateOps \cup ModelRemoveOps =>
            /\ \A g \in OtherFields(lastL'.field) : lists'[g] = lists[g]
            /\ UNCHANGED <<items, nextId, effects, actorType, structureType, buildingType>> ]_vars

C29_Witness ==
    /\ lastL.op = "removeLegendaryLegion"
    /\ lastL.err = ""
    /\ Len(lists.heroes) = 1
    /\ lists.legendaryLegions = <<>>

\* ------------------------------------------------------------ specification
\* system.structureType's initial value.
Generic == <<"G", "e", "n", "e", "r", "i", "c">>

NoLists == [heroes |-> <<>>, legendaryLegions |-> <<>>, enemies |-> <<>>, allies |-> <<>>]

\* A new actor: no status child, the schema's initial values, empty lists.
Init ==
    /\ items \in { <<>>, <<OtherItem(OtherId)>> }
    /\ nextId = 1
    /\ last = NoOp
    /\ structureType = Generic
    /\ buildingType = JSString(<<>>)
    /\ sheetData = <<>>
    /\ actorType = "army"
    /\ lists = NoLists
    /\ lastL = NoListOp
    /\ trail = NoTrail
    /\ lastF = NoForm
    /\ tasks = NoTasks
    /\ effects = <<>>
    /\ generation = "newest"

Next ==
    \/ \E v \in NameInputs : AddStatus(v)
    \/ \E id \in IdInputs : RemoveStatus(id)
    \/ \E id \in IdInputs : ToggleActive(id)
    \/ \E id \in IdInputs, value \in RenameValues : OnStatusNameChange(id, value)

\* The Status Registry of one actor.
Spec == Init /\ [][Next]_vars

\* A Structure actor created with any of the sample types.
InitStructure ==
    /\ items = <<>>
    /\ nextId = 1
    /\ last = NoOp
    /\ structureType \in TypeSamples
    /\ buildingType \in { JSString(b) : b \in TypeSamples } \cup { JSNull }
    /\ sheetData = <<>>
    /\ actorType = "structure"
    /\ lists = NoLists
    /\ lastL = NoListOp
    /\ trail = NoTrail
    /\ lastF = NoForm
    /\ tasks = NoTasks
    /\ effects = <<>>
    /\ generation = "newest"

NextStructure ==
    \/ GetData
    \/ \E form \in StructureForms : UpdateStructure(form)

\* The Structure sheet: updates of the type fields and renders of the sheet.
SpecStructure == InitStructure /\ [][NextStructure]_vars

\* An Army or a Faction actor with empty lists.
InitList ==
    /\ items = <<>>
    /\ nextId = 1
    /\ last = NoOp
    /\ structureType = Generic
    /\ buildingType = JSString(<<>>)
    /\ sheetData = <<>>
    /\ actorType \in {"army", "faction"}
    /\ lists = NoLists
    /\ lastL = NoListOp
    /\ trail = NoTrail
    /\ lastF = NoForm
    /\ tasks = NoTasks
    /\ effects = <<>>
    /\ generation = "newest"

NextList ==
    \/ \E arg \in AddInputs("heroes") : addHero(arg)
    \/ \E index \in IndexInputs, arg \in PartialInputs("heroes") : updateHero(index, arg)
    \/ \E index \in IndexInputs : removeHero(index)
    \/ \E arg \in AddInputs("legendaryLegions") : addLegendaryLegion(arg)
    \/ \E index \in IndexInputs, arg \in PartialInputs("legendaryLegions") :
            updateLegendaryLegion(index, arg)
    \/ \E index \in IndexInputs : removeLegendaryLegion(index)
    \/ \E arg \in AddInputs("enemies") : addEnemy(arg)
    \/ \E index \in IndexInputs, arg \in PartialInputs("enemies") : updateEnemy(index, arg)
    \/ \E index \in IndexInputs : removeEnemy(index)
    \/ \E arg \in AddInputs("allies") : addAlly(arg)
    \/ \E index \in IndexInputs, arg \in PartialInputs("allies") : updateAlly(index, arg)
    \/ \E index \in IndexInputs : removeAlly(index)
    \/ OnAddHero
    \/ \E d \in DataIndexInputs : OnRemoveHero(d)
    \/ OnAddEnemy
    \/ \E d \in DataIndexInputs : OnRemoveEnemy(d)
    \/ OnAddAlly
    \/ \E d \in DataIndexInputs : OnRemoveAlly(d)

\* The list sub-entity editor of one Army or Faction actor.
SpecList == InitList /\ [][NextList]_vars

\* An Army, Faction or Structure actor whose lists hold rows made by the sheet.
InitForm ==
    /\ items = <<>>
    /\ nextId = 1
    /\ last = NoOp
    /\ structureType = Generic
    /\ buildingType = JSString(<<>>)
    /\ sheetData = <<>>
    /\ actorType \in {"army", "faction", "structure"}
    /\ \E n, m \in 0 .. MaxElems :
            /\ n + m <= MaxElems
            /\ lists = CASE actorType = "army" ->
                              [heroes |-> DefaultRows("heroes", n),
                               legendaryLegions |-> DefaultRows("legendaryLegions", m),
                               enemies |-> <<>>, allies |-> <<>>]
                          [] actorType = "faction" ->
                              [heroes |-> <<>>, legendaryLegions |-> <<>>,
                               enemies |-> DefaultRows("enemies", n),
                               allies |-> DefaultRows("allies", m)]
                          [] OTHER -> NoLists
    /\ lastL = NoListOp
    /\ trail = NoTrail
    /\ lastF = NoForm
    /\ tasks = NoTasks
    /\ effects = <<>>
    /\ generation = "newest"

NextForm ==
    \/ \E form \in FormsOver(ArmyFormKeys) : ArmyUpdateObject(form)
    \/ \E form \in FormsOver(FactionFormKeys) : FactionUpdateObject(form)
    \/ /\ actorType = "structure"
       /\ \E form \in StructureForms : UpdateStructure(form)

\* The form submissions of the three sheets.
SpecForm == InitForm /\ [][NextForm]_vars

\* An Army or a Faction actor with empty lists, its adds and removes followed.
InitScenario ==
    /\ items = <<>>
    /\ nextId = 1
    /\ last = NoOp
    /\ structureType = Generic
    /\ buildingType = JSString(<<>>)
    /\ sheetData = <<>>
    /\ actorType \in {"army", "faction"}
    /\ lists = NoLists
    /\ lastL = NoListOp
    /\ trail = NewTrail
    /\ lastF = NoForm
    /\ tasks = NoTasks
    /\ effects = <<>>
    /\ generation = "newest"

NextScenario ==
    \/ \E arg \in ScenarioInputs("heroes") : addHero(arg)
    \/ \E index \in ScenarioIndexes : removeHero(index)
    \/ \E arg \in ScenarioInputs("legendaryLegions") : addLegendaryLegion(arg)
    \/ \E index \in ScenarioIndexes : removeLegendaryLegion(index)
    \/ \E arg \in ScenarioInputs("enemies") : addEnemy(arg)
    \/ \E index \in ScenarioIndexes : removeEnemy(index)
    \/ \E arg \in ScenarioInputs("allies") : addAlly(arg)
    \/ \E index \in ScenarioIndexes : removeAlly(index)

\* Adds and removes on lists that start empty.
SpecScenario == InitScenario /\ [][NextScenario]_vars

\* An actor of either generation: the ActiveEffect one holds effects, the Item one
\* holds items.
InitEffects ==
    /\ generation \in {"legacy", "newest"}
    /\ items \in { <<>>, <<OtherItem(OtherId)>> }
    /\ effects \in { <<>>, <<OtherEffect(OtherId)>> }
    /\ generation = "legacy" => items = <<>>
    /\ generation = "newest" => effects = <<>>
    /\ nextId = 1
    /\ last = NoOp
    /\ structureType = Generic
    /\ buildingType = JSString(<<>>)
    /\ sheetData = <<>>
    /\ actorType = "army"
    /\ lists = NoLists
    /\ lastL = NoListOp
    /\ trail = NoTrail
    /\ lastF = NoForm
    /\ tasks = NoTasks

NextEffects ==
    \/ /\ generation = "legacy"
       /\ \E statusId \in StatusIdInputs, clock \in Clocks : addStatusEffect(statusId, clock)
    \/ /\ generation = "legacy"
       /\ \E statusId \in StatusIdInputs : removeStatusEffect(statusId)
    \/ /\ generation = "newest"
       /\ \E statusId \in StatusIdInputs : addStatusEffectShim(statusId)
    \/ /\ generation = "newest"
       /\ \E statusId \in StatusIdInputs : removeStatusEffectShim(statusId)

\* The deprecated status-effect API of both generations.
SpecEffects == InitEffects /\ [][NextEffects]_vars

\* An Army or a Faction actor that collaborators work on at the same time.
InitRace ==
    /\ items = <<>>
    /\ nextId = 1
    /\ last = NoOp
    /\ structureType = Generic
    /\ buildingType = JSString(<<>>)
    /\ sheetData = <<>>
    /\ actorType \in {"army", "faction"}
    /\ \E n \in 0 .. 1 :
          lists = [NoLists EXCEPT !.heroes = DefaultRows("heroes", n),
                                  !.enemies = DefaultRows("enemies", n)]
    /\ lastL = NoListOp
    /\ trail = NoTrail
    /\ lastF = NoForm
    /\ effects = <<>>
    /\ generation = "newest"
    /\ tasks = NoTasks

NextRace ==
    \/ \E t \in 1 .. MaxTasks, v \in { JSString(<<"a">>), JSString(<<" ", "a">>), JSNull } :
          AddStatusCheck(t, v)
    \/ \E t \in 1 .. MaxTasks : AddStatusCreate(t)
    \/ \E t \in 1 .. MaxTasks : OnAddBegin(t, "_onAddHero", "heroes")
    \/ \E t \in 1 .. MaxTasks : OnAddBegin(t, "_onAddEnemy", "enemies")
    \/ \E t \in 1 .. MaxTasks : OnAddBegin(t, "_onAddAlly", "allies")
    \/ \E t \in 1 .. MaxTasks, dataIndex \in { JSString(<<"0">>), JSString(<<"1">>), JSUndefined } :
          OnRemoveBegin(t, "_onRemoveHero", "heroes", dataIndex)
    \/ \E t \in 1 .. MaxTasks, dataIndex \in { JSString(<<"0">>), JSString(<<"1">>), JSUndefined } :
          OnRemoveBegin(t, "_onRemoveEnemy", "enemies", dataIndex)
    \/ \E t \in 1 .. MaxTasks, dataIndex \in { JSString(<<"0">>), JSString(<<"1">>), JSUndefined } :
          OnRemoveBegin(t, "_onRemoveAlly", "allies", dataIndex)
    \/ \E t \in 1 .. MaxTasks : ListWrite(t)

\* Operations of several collaborators in flight on one actor.
SpecRace == InitRace /\ [][NextRace]_vars

====
